---- MODULE Spec2Model ----
(***************************************************************************)
(* Model of tutorials/Skills/agilerl_skills_curriculum.py: the three       *)
(* reward-shaping wrappers (StabilizeSkill, CenterSkill, LandingSkill) and *)
(* the __main__ script, which trains one skill after the other and then    *)
(* trains a selector over the loaded skill agents.                         *)
(*                                                                         *)
(* Numbers.  Observation components x, y, theta are held in tenths and     *)
(* rewards of the skill wrappers in hundredths, so that the penalties      *)
(* (|dx| * 10) ** 2, |2 * x| ** 2, ... are exact integers: 1.0 is 100,     *)
(* 10.0 is 1000, -100.0 is -10000, -1000.0 is -100000.                     *)
(*                                                                         *)
(* Lists.  A history list and agent.scores are held as their length and    *)
(* their last element: the wrappers read a history list only through       *)
(* len(...) and [-1], and the script only appends to agent.scores.         *)
(***************************************************************************)
EXTENDS Integers, Sequences, FiniteSets

\* ------------------------------------------------------------------ bounds
\* INIT_HP["EPISODES"] is 1000, range(500) and skill_duration 40 in the
\* script; the loops are explored for these smaller trip counts.
EPISODES == 2
SelectorSteps == 2
skill_duration == 2

\* "Reset episode if longer than 300 steps"
EpisodeLimit == 300

\* values of x, y, theta (tenths) fed to the skill wrappers
Coord == {0, 1}
\* rewards of the base environment passed to skill_reward (hundredths)
BaseRewards == {-10000, 10000}
\* rewards returned by the selector's environment
EnvRewards == {1, 2}
\* the one reward of an environment whose rewards do not vary
FlatRewards == {1}
\* leg-contact flags, observation indices 6 and 7
LanderObs == [{6, 7} -> {0, 1}]
\* actions a skill agent returns (0 is the no-op)
LanderActions == {0, 2}
\* an airborne lander, and an agent that always fires the main engine
AirborneObs == {[i \in {6, 7} |-> 0]}
EngineActions == {2}

Observations == [x : Coord, y : Coord, theta : Coord]

VARIABLES
    pc,              \* position in __main__
    skill_idx,       \* position of "for skill in skills.keys()"
    open_envs,       \* environments created and not yet closed
    history,         \* self.history of the skill wrapper inside env
    env_fresh,       \* an episode of the wrapped environment begins: no step since
                     \* the wrapper was built or since a step returned terminated
                     \* or truncated
    ret,             \* what the last env.step of the skill environment returned
    streak,          \* consecutive non-terminal skill_reward calls since the
                     \* history was last empty, the latest call included
    pop,             \* pop[0]: the set of tasks its weights were updated on
    ckpt,            \* files under save_dir
    trained_skills,  \* the dict built from the loaded skill agents
    idx_epi, idx_step, skill_step,
    state,           \* the observation the selector loop holds
    env_obs,         \* the observation the environment returned last
    action,          \* action[0] of the selector
    reward, score, rewards, scores,
    termination, truncation,
    step_log,        \* rewards returned by env.step since the last selector getAction
    last_step        \* the last env.step of this skill execution: action sent, agent queried

vars == <<pc, skill_idx, open_envs, history, env_fresh, ret, streak, pop, ckpt,
          trained_skills, idx_epi, idx_step, skill_step, state, env_obs, action,
          reward, score, rewards, scores, termination, truncation, step_log,
          last_step>>

skill_vars == <<history, env_fresh, ret, streak>>
loop_vars == <<idx_epi, idx_step, skill_step, state, env_obs, action, reward, score,
               rewards, scores, termination, truncation, step_log, last_step>>

\* ----------------------------------------------------------------- helpers
Abs(a) == IF a < 0 THEN -a ELSE a
Sq(a) == a * a

RECURSIVE Sum(_)
Sum(s) == IF s = <<>> THEN 0 ELSE s[1] + Sum(Tail(s))

\* skills = {"stabilize": ..., "center": ..., "landing": ...}, in key order
skills == <<"stabilize", "center", "landing">>

EmptyList == [len |-> 0, last |-> 0]
append(l, v) == [len |-> l.len + 1, last |-> v]

\* self.history as __init__ builds it (LandingSkill has none)
NewHistory(skill) ==
    CASE skill = "stabilize" -> [x |-> EmptyList, y |-> EmptyList, theta |-> EmptyList]
      [] skill = "center" -> [y |-> EmptyList, theta |-> EmptyList]
      [] OTHER -> [none |-> EmptyList]

NoRet == [reward |-> 0, terminated |-> FALSE, truncated |-> FALSE, resets |-> 0]

\* ------------------------------------------------------------ skill_reward
\* the cut-off already taken at 300 steps
TooLong_inclusive(n) == n >= EpisodeLimit

\* "if len(self.history[...]) > 300"
TooLong(n) == n > EpisodeLimit

\* a cut-off that does not empty the history
AfterCutoff_kept(skill, h) == h

\* the history left by the cut-off branch
AfterCutoff(skill, h) == NewHistory(skill)

\* the history left by the "if terminated or truncated" branch
AfterEnd(skill, h) == NewHistory(skill)

StabilizeSkill_skill_reward(h, observation, r, terminated, truncated) ==
    IF terminated \/ truncated
    THEN [history |-> AfterEnd("stabilize", h), reward |-> -10000,
          terminated |-> terminated, truncated |-> truncated, resets |-> 0]
    ELSE IF h.x.len = 0
    THEN [history |-> [x |-> append(h.x, observation.x),
                       y |-> append(h.y, observation.y),
                       theta |-> append(h.theta, observation.theta)],
          reward |-> 100, terminated |-> FALSE, truncated |-> FALSE, resets |-> 0]
    ELSE LET shaped == 100 - 100 * Sq(Abs(h.x.last - observation.x))
                           - 100 * Sq(Abs(h.y.last - observation.y))
                           - 100 * Sq(Abs(h.theta.last - observation.theta))
             h2 == [x |-> append(h.x, observation.x),
                    y |-> append(h.y, observation.y),
                    theta |-> append(h.theta, observation.theta)]
         IN  IF TooLong(h2.x.len)
             THEN [history |-> AfterCutoff("stabilize", h2), reward |-> 1000,
                   terminated |-> TRUE, truncated |-> FALSE, resets |-> 1]
             ELSE [history |-> h2, reward |-> shaped,
                   terminated |-> FALSE, truncated |-> FALSE, resets |-> 0]

CenterSkill_skill_reward(h, observation, r, terminated, truncated) ==
    IF terminated \/ truncated
    THEN [history |-> AfterEnd("center", h), reward |-> -100000,
          terminated |-> terminated, truncated |-> truncated, resets |-> 0]
    ELSE IF h.y.len = 0
    THEN [history |-> [y |-> append(h.y, observation.y),
                       theta |-> append(h.theta, observation.theta)],
          reward |-> 100, terminated |-> FALSE, truncated |-> FALSE, resets |-> 0]
    ELSE LET shaped == 100 - Sq(Abs((0 - observation.x) * 2))
                           - 100 * Sq(Abs(h.y.last - observation.y))
                           - 100 * Sq(Abs(h.theta.last - observation.theta))
             h2 == [y |-> append(h.y, observation.y),
                    theta |-> append(h.theta, observation.theta)]
         IN  IF TooLong(h2.y.len)
             THEN [history |-> AfterCutoff("center", h2), reward |-> 1000,
                   terminated |-> TRUE, truncated |-> FALSE, resets |-> 1]
             ELSE [history |-> h2, reward |-> shaped,
                   terminated |-> FALSE, truncated |-> FALSE, resets |-> 0]

LandingSkill_skill_reward(h, observation, r, terminated, truncated) ==
    IF terminated \/ truncated
    THEN [history |-> h, reward |-> r,
          terminated |-> terminated, truncated |-> truncated, resets |-> 0]
    ELSE [history |-> h,
          reward |-> 100 - Sq(Abs(0 - observation.x)) - Sq(Abs(0 - observation.y))
                         - 10 * Abs(0 - observation.theta),
          terminated |-> FALSE, truncated |-> FALSE, resets |-> 0]

skill_reward(skill, h, observation, r, terminated, truncated) ==
    CASE skill = "stabilize" ->
            StabilizeSkill_skill_reward(h, observation, r, terminated, truncated)
      [] skill = "center" ->
            CenterSkill_skill_reward(h, observation, r, terminated, truncated)
      [] OTHER ->
            LandingSkill_skill_reward(h, observation, r, terminated, truncated)

HistoryEmpty(h) == \A k \in DOMAIN h : h[k].len = 0

\* ---------------------------------------------------------------- __main__
NoFile == {"no file"}

\* one file name for every skill
skill_filename_first(skill) == skills[1]

\* f"PPO_trained_agent_{skill}.pt"
skill_filename(skill) == skill

\* the selector saved under the name of the last skill of the loop
selector_filename_stale == skill_filename(skills[Len(skills)])

\* "PPO_trained_agent_selector.pt"
selector_filename == "selector"

Files == {"stabilize", "center", "landing", "selector"}

NoObs == [i \in {6, 7} |-> 0]
NoStep == [sent |-> -1, queried |-> -1]

Init ==
    /\ pc = "skill_setup"
    /\ skill_idx = 1
    /\ open_envs = {}
    /\ history = NewHistory("landing")
    /\ env_fresh = FALSE
    /\ ret = NoRet
    /\ streak = 0
    /\ pop = {}
    /\ ckpt = [f \in Files |-> NoFile]
    /\ trained_skills = <<>>
    /\ idx_epi = 0
    /\ idx_step = 0
    /\ skill_step = 0
    /\ state = NoObs
    /\ env_obs = NoObs
    /\ action = 0
    /\ reward = 0
    /\ score = 0
    /\ rewards = <<>>
    /\ scores = EmptyList
    /\ termination = FALSE
    /\ truncation = FALSE
    /\ step_log = <<>>
    /\ last_step = NoStep

\* env = makeSkillVectEnvs(...); pop = initialPopulation(...)
SkillSetup ==
    /\ pc = "skill_setup"
    /\ open_envs' = open_envs \cup {skills[skill_idx]}
    /\ history' = NewHistory(skills[skill_idx])
    /\ env_fresh' = TRUE
    /\ ret' = NoRet
    /\ streak' = 0
    /\ pop' = {}
    /\ pc' = "train"
    /\ UNCHANGED <<skill_idx, ckpt, trained_skills, loop_vars>>

\* train_on_policy: one env.step, which the Skill wrapper passes through
\* skill_reward; a terminated, truncated or cut-off episode is followed by a reset
TrainCall(observation, r, terminated, truncated) ==
    /\ pc = "train"
    /\ LET out == skill_reward(skills[skill_idx], history, observation, r,
                               terminated, truncated)
       IN  /\ history' = out.history
           /\ ret' = [reward |-> out.reward, terminated |-> out.terminated,
                      truncated |-> out.truncated, resets |-> out.resets]
           /\ env_fresh' = (out.terminated \/ out.truncated \/ out.resets > 0)
           /\ streak' = IF terminated \/ truncated THEN 0
                        ELSE IF HistoryEmpty(history) THEN 1
                        ELSE streak + 1
    /\ UNCHANGED <<pc, skill_idx, open_envs, pop, ckpt, trained_skills, loop_vars>>

TrainStep ==
    \E observation \in Observations, r \in BaseRewards,
       terminated \in BOOLEAN, truncated \in BOOLEAN :
       TrainCall(observation, r, terminated, truncated)

\* train_on_policy: agent.learn on the experiences of the skill environment
TrainLearn ==
    /\ pc = "train"
    /\ pop' = pop \cup {skills[skill_idx]}
    /\ UNCHANGED <<pc, skill_idx, open_envs, skill_vars, ckpt, trained_skills, loop_vars>>

\* train_on_policy returns trained_pop
TrainReturn ==
    /\ pc = "train"
    /\ pop # {}
    /\ pc' = "save"
    /\ UNCHANGED <<skill_idx, open_envs, skill_vars, pop, ckpt, trained_skills, loop_vars>>

\* trained_pop[0].saveCheckpoint(save_path)
SaveSkill ==
    /\ pc = "save"
    /\ ckpt' = [ckpt EXCEPT ![skill_filename(skills[skill_idx])] = pop]
    /\ pc' = "close"
    /\ UNCHANGED <<skill_idx, open_envs, skill_vars, pop, trained_skills, loop_vars>>

\* env.close(), and the next iteration of the for loop
CloseSkillEnv ==
    /\ pc = "close"
    /\ open_envs' = open_envs \ {skills[skill_idx]}
    /\ history' = NewHistory("landing")
    /\ env_fresh' = FALSE
    /\ ret' = NoRet
    /\ streak' = 0
    /\ IF skill_idx < Len(skills)
       THEN skill_idx' = skill_idx + 1 /\ pc' = "skill_setup"
       ELSE skill_idx' = skill_idx /\ pc' = "load"
    /\ UNCHANGED <<pop, ckpt, trained_skills, loop_vars>>

\* PPO.load of the three checkpoints, trained_skills, makeVectEnvs, initialPopulation
SelectorSetup ==
    /\ pc = "load"
    /\ \A f \in {"stabilize", "center", "landing"} : ckpt[f] # NoFile
    /\ trained_skills' =
         [a \in 0..2 |->
            [skill |-> skills[a + 1], agent |-> ckpt[skills[a + 1]],
             skill_duration |-> skill_duration]]
    /\ open_envs' = open_envs \cup {"lander"}
    /\ pop' = {}
    /\ pc' = "episode_start"
    /\ UNCHANGED <<skill_idx, skill_vars, ckpt, loop_vars>>

\* -------------------------------------------------------- selector training
\* "if state[0][6] or state[0][7]"
Landed(s) == s[6] # 0 \/ s[7] # 0

\* one iteration too many
InSkillRange_inclusive(i, duration) == i <= duration

\* "for skill_step in range(skill_duration)": another iteration follows i - 1
InSkillRange(i, duration) == i < duration

\* "reward = skill_reward"
Accumulate_assign(total, r) == r

\* "reward += skill_reward"
Accumulate(total, r) == total + r

\* agent.learn(...) of the selector loop updates the weights of agent
learn(weights) == weights \cup {"selector"}

\* state = env.reset()[0]; score = 0; the rollout lists are emptied
EpisodeStart(Obs) ==
    /\ pc = "episode_start"
    /\ \E obs \in Obs : env_obs' = obs /\ state' = obs
    /\ score' = 0
    /\ rewards' = <<>>
    /\ idx_step' = 0
    /\ pc' = "select"
    /\ UNCHANGED <<skill_idx, open_envs, skill_vars, pop, ckpt, trained_skills, idx_epi,
                   skill_step, action, reward, scores, termination, truncation,
                   step_log, last_step>>

\* action = agent.getAction(state); skill_agent, skill_duration; reward = 0
SelectorGetAction ==
    /\ pc = "select"
    /\ \E a \in DOMAIN trained_skills : action' = a
    /\ reward' = 0
    /\ skill_step' = 0
    /\ step_log' = <<>>
    /\ last_step' = NoStep
    /\ pc' = "skill_loop"
    /\ UNCHANGED <<skill_idx, open_envs, skill_vars, pop, ckpt, trained_skills, idx_epi,
                   idx_step, state, env_obs, score, rewards, scores, termination,
                   truncation>>

\* one iteration of the inner loop.  skill_step counts the iterations that
\* ended in "state = next_state"; env_obs is next_state.
SkillStep(Obs, Actions, Rewards) ==
    /\ pc = "skill_loop"
    /\ \E skill_action \in Actions, next_state \in Obs,
          r \in Rewards, term \in BOOLEAN, trunc \in BOOLEAN :
          /\ last_step' = IF Landed(state)
                          THEN [sent |-> 0, queried |-> -1]
                          ELSE [sent |-> skill_action, queried |-> action]
          /\ env_obs' = next_state
          /\ termination' = term
          /\ truncation' = trunc
          /\ reward' = Accumulate(reward, r)
          /\ step_log' = Append(step_log, r)
          /\ IF term \/ trunc
             THEN /\ state' = state
                  /\ skill_step' = skill_step
                  /\ pc' = "append"
             ELSE /\ state' = next_state
                  /\ skill_step' = skill_step + 1
                  /\ pc' = IF InSkillRange(skill_step + 1,
                                           trained_skills[action].skill_duration)
                           THEN "skill_loop" ELSE "append"
    /\ UNCHANGED <<skill_idx, open_envs, skill_vars, pop, ckpt, trained_skills, idx_epi,
                   idx_step, action, score, rewards, scores>>

\* score += reward; rewards.append(reward); next idx_step of range(500)
RolloutAppend ==
    /\ pc = "append"
    /\ score' = score + reward
    /\ rewards' = Append(rewards, reward)
    /\ idx_step' = idx_step + 1
    /\ pc' = IF idx_step + 1 < SelectorSteps THEN "select" ELSE "episode_end"
    /\ UNCHANGED <<skill_idx, open_envs, skill_vars, pop, ckpt, trained_skills, idx_epi,
                   skill_step, state, env_obs, action, reward, scores, termination,
                   truncation, step_log, last_step>>

\* agent.scores.append(score); agent.learn(...); next idx_epi
EpisodeEnd ==
    /\ pc = "episode_end"
    /\ scores' = append(scores, score)
    /\ pop' = learn(pop)
    /\ idx_epi' = idx_epi + 1
    /\ pc' = IF idx_epi + 1 < EPISODES THEN "episode_start" ELSE "finish"
    /\ UNCHANGED <<skill_idx, open_envs, skill_vars, ckpt, trained_skills, idx_step,
                   skill_step, state, env_obs, action, reward, score, rewards,
                   termination, truncation, step_log, last_step>>

\* env.close(); pop[0].saveCheckpoint(save_path)
Finish ==
    /\ pc = "finish"
    /\ open_envs' = open_envs \ {"lander"}
    /\ ckpt' = [ckpt EXCEPT ![selector_filename] = pop]
    /\ pc' = "done"
    /\ UNCHANGED <<skill_idx, skill_vars, pop, trained_skills, loop_vars>>

Next ==
    \/ SkillSetup
    \/ TrainStep
    \/ TrainLearn
    \/ TrainReturn
    \/ SaveSkill
    \/ CloseSkillEnv
    \/ SelectorSetup
    \/ EpisodeStart(LanderObs)
    \/ SelectorGetAction
    \/ SkillStep(LanderObs, LanderActions, FlatRewards)
    \/ RolloutAppend
    \/ EpisodeEnd
    \/ Finish

\* the script over an environment whose observations and terminations vary
Spec == Init /\ [][Next]_vars

NextRewards ==
    \/ SkillSetup
    \/ TrainStep
    \/ TrainLearn
    \/ TrainReturn
    \/ SaveSkill
    \/ CloseSkillEnv
    \/ SelectorSetup
    \/ EpisodeStart(AirborneObs)
    \/ SelectorGetAction
    \/ SkillStep(AirborneObs, EngineActions, EnvRewards)
    \/ RolloutAppend
    \/ EpisodeEnd
    \/ Finish

\* the script over an environment whose rewards and terminations vary
SpecRewards == Init /\ [][NextRewards]_vars

\* ------------------------------------------------------------------ claims
SkillPhase == pc \in {"skill_setup", "train", "save", "close"}
SelectorPhase ==
    pc \in {"episode_start", "select", "skill_loop", "append", "episode_end", "finish"}
\* a skill execution has ended and the next selector getAction has not happened
SkillExecuted ==
    pc \in {"append", "episode_end"} \/ (pc = "select" /\ idx_step > 0)
ShapedSkill == pc = "train" /\ skills[skill_idx] \in {"stabilize", "center"}
SkillFiles == {"stabilize", "center", "landing"}

\* C1 as stated: between one selector getAction and the next, exactly
\* skill_duration env.step calls are made.
C1_ExactlySkillDuration ==
    SkillExecuted => Len(step_log) = trained_skills[action].skill_duration

\* C1 as amended: a skill execution makes between 1 and skill_duration env.step
\* calls, and fewer than skill_duration only when the last of them returned
\* termination or truncation; while the inner loop runs, fewer than
\* skill_duration calls were made and none of them ended the episode.
C1_AtMostSkillDuration ==
    /\ SkillExecuted =>
         /\ Len(step_log) \in 1..trained_skills[action].skill_duration
         /\ Len(step_log) < trained_skills[action].skill_duration
               => (termination \/ truncation)
    /\ pc = "skill_loop" =>
         /\ Len(step_log) < trained_skills[action].skill_duration
         /\ Len(step_log) = skill_step

\* a skill execution cut short by a terminating first step
C1_Witness ==
    /\ pc = "append"
    /\ Len(step_log) = 1
    /\ trained_skills[action].skill_duration > 1
    /\ termination

\* C2: the reward appended for a selector step is the sum of the rewards of
\* all env.step calls of that skill execution, the terminating one included,
\* and the score appended to agent.scores is the sum of the rewards appended
\* in that episode.
C2_RewardsAccumulate ==
    /\ pc = "append" => reward = Sum(step_log)
    /\ (SkillExecuted /\ pc # "append") =>
          /\ Len(rewards) = idx_step
          /\ rewards[Len(rewards)] = Sum(step_log)
    /\ pc \in {"select", "skill_loop", "append", "episode_end"} => score = Sum(rewards)
    /\ (pc \in {"episode_start", "finish", "done"} /\ scores.len > 0) =>
          scores.last = Sum(rewards)
    /\ SelectorPhase => scores.len = idx_epi

\* an episode was scored whose last skill execution ended on a terminating
\* second step, with two different rewards returned
C2_Witness ==
    /\ pc = "finish"
    /\ scores.len = EPISODES
    /\ Len(step_log) = 2
    /\ step_log[1] # step_log[2]
    /\ (termination \/ truncation)
    /\ rewards[1] # rewards[Len(rewards)]

\* C3: while the selector is trained the loaded skill agents keep their
\* weights (they were updated on their own skill only and never on the
\* selector's experiences) and no skill checkpoint is rewritten.
C3_SkillsFrozen ==
    /\ [](SelectorPhase \/ pc = "done" =>
            \A a \in DOMAIN trained_skills :
               /\ trained_skills[a].agent = {trained_skills[a].skill}
               /\ ckpt[trained_skills[a].skill] = trained_skills[a].agent)
    /\ [][SelectorPhase =>
            /\ trained_skills' = trained_skills
            /\ \A f \in SkillFiles : ckpt'[f] = ckpt[f]]_vars

\* the selector has learned, was saved, and a skill agent had been queried
C3_Witness ==
    /\ pc = "done"
    /\ ckpt[selector_filename] = {"selector"}
    /\ last_step.queried \in DOMAIN trained_skills

\* C4: each skill gets a fresh population and its own environment, is trained,
\* saved to its own file and its environment closed before the next skill
\* starts, and the selector starts only after the three checkpoints are saved.
C4_SkillsBeforeSelector ==
    /\ pc = "skill_setup" => open_envs = {}
    /\ pc \in {"train", "save", "close"} =>
          /\ open_envs = {skills[skill_idx]}
          /\ pop \subseteq {skills[skill_idx]}
          /\ DOMAIN history = DOMAIN NewHistory(skills[skill_idx])
    /\ SkillPhase =>
          /\ \A i \in 1..Len(skills) :
                /\ i < skill_idx => ckpt[skills[i]] = {skills[i]}
                /\ i > skill_idx => ckpt[skills[i]] = NoFile
          /\ pc # "close" => ckpt[skills[skill_idx]] = NoFile
          /\ trained_skills = <<>>
          /\ step_log = <<>>
    /\ (SelectorPhase \/ pc \in {"load", "done"}) =>
          /\ \A f \in SkillFiles : ckpt[f] = {f}
          /\ open_envs \subseteq {"lander"}
    /\ SelectorPhase => DOMAIN trained_skills = 0..2

\* the selector takes its first action with all three checkpoints on disk
C4_Witness ==
    /\ pc = "skill_loop"
    /\ idx_epi = 0
    /\ idx_step = 0
    /\ \A f \in SkillFiles : ckpt[f] = {f}
    /\ open_envs = {"lander"}

\* C5: of consecutive non-terminal skill_reward calls since the history was
\* last cleared, calls 1 to 300 return terminated false, call 301 returns
\* reward 10.0 with terminated true, clears the history and resets the
\* wrapped environment; the history is never longer than 300 on return.
C5_CutOffAfter300 ==
    ShapedSkill =>
       /\ streak <= EpisodeLimit + 1
       /\ streak \in 1..EpisodeLimit => (~ret.terminated /\ ret.resets = 0)
       /\ streak = EpisodeLimit + 1 =>
             /\ ret.reward = 1000
             /\ ret.terminated
             /\ HistoryEmpty(history)
             /\ ret.resets = 1
       /\ \A k \in DOMAIN history : history[k].len <= EpisodeLimit

\* the 301st call of a CenterSkill episode
C5_Witness ==
    /\ pc = "train"
    /\ skills[skill_idx] = "center"
    /\ streak = EpisodeLimit + 1
    /\ ret.terminated

C7_NoOpWhenLanded ==
    [][Len(step_log') = Len(step_log) + 1 =>
          IF Landed(env_obs)
          THEN last_step'.sent = 0 /\ last_step'.queried = -1
          ELSE last_step'.queried = action /\ last_step'.sent \in LanderActions]_vars

====
